---- MODULE Spec2Model ----
(***************************************************************************)
(* A model of the RAG_QA retrieval pipeline: the chunker                   *)
(* (document_processor.py), the embedding index with its two persisted     *)
(* artifacts (vector_store.py), the generation client's retry loop         *)
(* (zhipu_client.py) and the orchestrator (rag_system.py).                 *)
(*                                                                         *)
(* Text is a sequence of one-character strings.  Exceptions are modelled   *)
(* by the name of the exception class; "none" means the call returned.     *)
(***************************************************************************)
EXTENDS Integers, Sequences, FiniteSets, TLC

VARIABLES
    FAISS_AVAILABLE,     \* vector_store.py: module flag set by the import of faiss
    json_error_is_request_exception,
                         \* whether the installed requests raises its own
                         \* JSONDecodeError (a RequestException) from response.json()
    document_processor,  \* RAGSystem.document_processor: constructed or None
    vector_store,        \* the VectorStore object (RAGSystem.vector_store)
    llm_client,          \* RAGSystem.llm_client: constructed or None
    is_initialized,      \* RAGSystem.is_initialized
    disk,                \* the two artifacts under Config.VECTOR_STORE_PATH
    initializing,        \* where a RAGSystem.initialize call that runs beside
                         \* ask_question calls stands; idle when none is running
    last                 \* the last call: its arguments, what it did, what it returned

vars == <<FAISS_AVAILABLE, json_error_is_request_exception, document_processor,
          vector_store, llm_client, is_initialized, disk, initializing, last>>

-----------------------------------------------------------------------------
(* Bounds and configuration *)

\* Config.CHUNK_SIZE and Config.CHUNK_OVERLAP, scaled down to the model's texts
ChunkSize == 6
ChunkOverlap == 2
\* the longest text _split_text is called with on its own, and the largest
\* chunk_size it is configured with
MaxTextLen == 5
MaxChunkSize == 4
\* how many of the corpora below the docs directory may hold
NumCorpora == 3
\* Config.MAX_RETRIEVAL_DOCS
MAX_RETRIEVAL_DOCS == 3
\* ZhipuAIClient.max_retries
max_retries == 3

-----------------------------------------------------------------------------
(* Sequences *)

Max(a, b) == IF a >= b THEN a ELSE b

\* s[from:] of Python, from counted from 0
DropFirst(s, from) == SubSeq(s, from + 1, Len(s))

-----------------------------------------------------------------------------
(* document_processor.py *)

Whitespace == {" "}
Terminators == {".", "!", "?"}

RECURSIVE LStrip(_)
LStrip(s) == IF s # <<>> /\ Head(s) \in Whitespace THEN LStrip(Tail(s)) ELSE s

RECURSIVE RStrip(_)
RStrip(s) ==
    IF s # <<>> /\ s[Len(s)] \in Whitespace THEN RStrip(SubSeq(s, 1, Len(s) - 1)) ELSE s

\* str.strip()
Strip(s) == RStrip(LStrip(s))

\* re.split(r'(?<=[.!?])\s*', text): the pattern matches right after a
\* terminator and takes the whitespace that follows, so the text is cut after
\* every terminator and the whitespace after the cut is dropped; a match at the
\* very end leaves a last empty piece.
RECURSIVE ReSplit(_, _, _, _)
ReSplit(text, i, piece, skipping) ==
    IF i > Len(text) THEN <<piece>>
    ELSE IF skipping /\ text[i] \in Whitespace THEN ReSplit(text, i + 1, piece, TRUE)
    ELSE IF text[i] \in Terminators
         THEN <<Append(piece, text[i])>> \o ReSplit(text, i + 1, <<>>, TRUE)
         ELSE ReSplit(text, i + 1, Append(piece, text[i]), FALSE)

Space == <<" ">>

\* a variant that takes one character less than chunk_overlap
SeedOneShort(last_chunk, chunk_overlap) ==
    DropFirst(last_chunk, Max(0, Len(last_chunk) - chunk_overlap + 1))

\* last_chunk[overlap_start:] of lines 118-120
OverlapSeed(last_chunk, chunk_overlap) ==
    DropFirst(last_chunk, Max(0, Len(last_chunk) - chunk_overlap))

\* one pass of the loop of _split_text over a sentence; st = [chunks, current_chunk]
SplitStep(st, raw, chunk_size, chunk_overlap) ==
    LET sentence == Strip(raw) IN
    IF sentence = <<>> THEN st
    ELSE IF Len(st.current_chunk) + Len(sentence) <= chunk_size
    THEN [st EXCEPT !.current_chunk = @ \o sentence \o Space]
    ELSE
        LET chunks == IF st.current_chunk # <<>>
                      THEN Append(st.chunks, Strip(st.current_chunk))
                      ELSE st.chunks
        IN  IF chunk_overlap > 0 /\ chunks # <<>>
            THEN LET last_chunk == chunks[Len(chunks)]
                 IN  [chunks |-> chunks,
                      current_chunk |->
                          OverlapSeed(last_chunk, chunk_overlap)
                              \o Space \o sentence \o Space]
            ELSE [chunks |-> chunks, current_chunk |-> sentence \o Space]

RECURSIVE SplitLoop(_, _, _, _)
SplitLoop(st, sentences, chunk_size, chunk_overlap) ==
    IF sentences = <<>> THEN st
    ELSE SplitLoop(SplitStep(st, Head(sentences), chunk_size, chunk_overlap),
                   Tail(sentences), chunk_size, chunk_overlap)

\* a variant without lines 125-126: the last buffer is not emitted
SplitWithoutLast(text, chunk_size, chunk_overlap) ==
    SplitLoop([chunks |-> <<>>, current_chunk |-> <<>>],
              ReSplit(text, 1, <<>>, FALSE), chunk_size, chunk_overlap).chunks

\* DocumentProcessor._split_text
_split_text(text, chunk_size, chunk_overlap) ==
    LET st == SplitLoop([chunks |-> <<>>, current_chunk |-> <<>>],
                        ReSplit(text, 1, <<>>, FALSE), chunk_size, chunk_overlap)
    IN  IF st.current_chunk # <<>>
        THEN Append(st.chunks, Strip(st.current_chunk))
        ELSE st.chunks

\* the chunk records split_documents makes of one document
DocChunks(doc, chunk_size, chunk_overlap) ==
    LET chunks == _split_text(doc.content, chunk_size, chunk_overlap) IN
    [i \in 1..Len(chunks) |->
        [file_name |-> doc.file_name, content |-> chunks[i], chunk_id |-> i - 1]]

\* DocumentProcessor.split_documents
RECURSIVE split_documents(_, _, _)
split_documents(documents, chunk_size, chunk_overlap) ==
    IF documents = <<>> THEN <<>>
    ELSE DocChunks(Head(documents), chunk_size, chunk_overlap)
         \o split_documents(Tail(documents), chunk_size, chunk_overlap)

-----------------------------------------------------------------------------
(* The corpus: what load_documents returns for the docs directory *)

Doc(name, content) == [file_name |-> name, content |-> content, type |-> "txt"]

\* the documents the docs directory may hold; 0 is an empty or missing directory.
\* load_documents keeps only documents whose stripped content is not empty.
Corpus(c) ==
    CASE c = 1 -> <<Doc("a.txt", <<"a", "b", ".", " ", "c", "d", ".">>)>>
      [] c = 2 -> <<Doc("b.txt", <<"e", "f", ".">>)>>
      [] c = 3 -> <<Doc("a.txt", <<"c", "d", ".">>), Doc("b.txt", <<"a", "b", ".">>)>>
      [] c = 4 -> <<Doc("c.txt", <<"a", "b", ".", "c", "d", "!", "e", "f", "?">>)>>
      [] OTHER -> <<>>

CorpusIds == 0..NumCorpora

\* the chunk sequences the orchestrator can hand to build_index
CorpusChunks(c) == split_documents(Corpus(c), ChunkSize, ChunkOverlap)

-----------------------------------------------------------------------------
(* The embedding function and the nearest-neighbour structure *)

\* the length every normalised vector is scaled to (1.0 in faiss.normalize_L2)
UnitLength == 5

CharCode(ch) ==
    CASE ch = "a" -> 1 [] ch = "b" -> 2 [] ch = "c" -> 3
      [] ch = "d" -> 4 [] ch = "e" -> 5 [] ch = "f" -> 6 [] OTHER -> 0

RECURSIVE TextCode(_)
TextCode(text) == IF text = <<>> THEN 0 ELSE CharCode(Head(text)) + TextCode(Tail(text))

RawVectors == << <<3, 4>>, <<6, 8>>, <<5, 0>>, <<0, 10>>, <<8, 6>> >>

\* SentenceTransformer.encode of one text: deterministic in the text, not
\* injective, not normalised
Encode(text) == RawVectors[(TextCode(text) % Len(RawVectors)) + 1]

Norm(v) == CHOOSE n \in 0..20 : n * n = v[1] * v[1] + v[2] * v[2]

\* faiss.normalize_L2 of one vector
normalize_L2(v) == <<(v[1] * UnitLength) \div Norm(v), (v[2] * UnitLength) \div Norm(v)>>

\* the inner product IndexFlatIP scores by
InnerProduct(v, w) == v[1] * w[1] + v[2] * w[2]

\* An index is the faiss object: the vectors added to it, in order.  Each entry
\* also remembers the chunk it was embedded from (of), which the code does not
\* store: "vector i belongs to chunk i" is stated in terms of it.
NoIndex == [built |-> FALSE, entries |-> <<>>]
EmptyIndex == [built |-> TRUE, entries |-> <<>>]

Embeddings(chunks) ==
    [i \in 1..Len(chunks) |->
        [vector |-> normalize_L2(Encode(chunks[i].content)), of |-> chunks[i]]]

-----------------------------------------------------------------------------
(* vector_store.py *)

\* VectorStore.__init__ after _initialize_model succeeded
NewVectorStore == [made |-> TRUE, model |-> TRUE, index |-> NoIndex, chunks |-> <<>>]
\* RAGSystem.vector_store = None
NoVectorStore == [made |-> FALSE, model |-> FALSE, index |-> NoIndex, chunks |-> <<>>]

BuildFaults == {"none", "encode", "add"}
SaveFaults == {"none", "makedirs", "write_index", "open_chunks", "dump"}
LoadFaults == {"none", "read_index", "read_chunks"}

Raise(vs, d, err) == [vs |-> vs, disk |-> d, err |-> err]
Return(vs, d) == [vs |-> vs, disk |-> d, err |-> "none"]

\* VectorStore.build_index(chunks); fault is the step the environment fails
build_index(vs, d, chunks, fault, faiss_available) ==
    IF ~faiss_available THEN Raise(vs, d, "RuntimeError")
    ELSE IF ~vs.model THEN Raise(vs, d, "RuntimeError")
    ELSE
        LET vs1 == [vs EXCEPT !.chunks = chunks]                 \* line 65
        IN  IF fault = "encode" THEN Raise(vs1, d, "EncodeError")       \* line 69
            ELSE IF chunks = <<>> THEN Raise(vs1, d, "IndexError")      \* line 72
            ELSE
                LET vs2 == [vs1 EXCEPT !.index = EmptyIndex]     \* line 73
                IN  IF fault = "add" THEN Raise(vs2, d, "MemoryError")  \* lines 76-77
                    ELSE Return([vs2 EXCEPT !.index.entries = Embeddings(chunks)], d)

AbsentFile == [state |-> "absent", data |-> <<>>]
TornFile == [state |-> "torn", data |-> <<>>]

\* a variant of a written file that lost its first item
TruncatedFile(data) == [state |-> "ok", data |-> SubSeq(data, 2, Len(data))]

\* a file written to its end: faiss.write_index stores the float32 vectors of
\* the flat index as they are, pickle.dump the chunk dictionaries as they are
File(data) == [state |-> "ok", data |-> data]

NoArtifacts == [index_faiss |-> AbsentFile, chunks_pkl |-> AbsentFile]

\* VectorStore.save_index(save_path)
save_index(vs, d, fault) ==
    IF ~vs.index.built THEN Raise(vs, d, "RuntimeError")
    ELSE IF fault = "makedirs" THEN Raise(vs, d, "OSError")            \* line 111
    ELSE IF fault = "write_index"                                      \* line 114
    THEN Raise(vs, [d EXCEPT !.index_faiss = TornFile], "RuntimeError")
    ELSE
        LET d1 == [d EXCEPT !.index_faiss = File(vs.index.entries)]
        IN  IF fault = "open_chunks" THEN Raise(vs, d1, "OSError")     \* line 117
            ELSE IF fault = "dump"                                     \* line 118
            THEN Raise(vs, [d1 EXCEPT !.chunks_pkl = TornFile], "OSError")
            ELSE Return(vs, [d1 EXCEPT !.chunks_pkl = File(vs.chunks)])

\* a variant under which no file is ever found missing
NeverMissing(file) == FALSE

\* the file is not there: os.path.exists is false (line 129), open raises (line 136)
Missing(file) == file.state = "absent"

\* VectorStore.load_index(load_path)
load_index(vs, d, fault, faiss_available) ==
    IF ~faiss_available THEN Raise(vs, d, "RuntimeError")
    ELSE IF Missing(d.index_faiss) THEN Raise(vs, d, "FileNotFoundError")
    ELSE IF d.index_faiss.state = "torn" \/ fault = "read_index"       \* line 132
    THEN Raise(vs, d, "RuntimeError")
    ELSE
        LET vs1 == [vs EXCEPT !.index = [built |-> TRUE, entries |-> d.index_faiss.data]]
        IN  IF Missing(d.chunks_pkl) THEN Raise(vs1, d, "FileNotFoundError")
            ELSE IF fault = "read_chunks" THEN Raise(vs1, d, "OSError") \* line 136
            ELSE IF d.chunks_pkl.state = "torn"                        \* line 137
            THEN Raise(vs1, d, "UnpicklingError")
            ELSE Return([vs1 EXCEPT !.chunks = d.chunks_pkl.data], d)

\* the score faiss reports beside the position -1 of a missing neighbour
NoMatchScore == -26

Questions == { <<"a", "b", "?">>, <<"e", "f", "?">> }

\* IndexFlatIP.search(q, k): the k best positions (0-based) by inner product,
\* best first, ties by position; padded with position -1 when the index holds
\* fewer than k vectors
RECURSIVE Ranked(_, _, _)
Ranked(entries, q, left) ==
    IF left = {} THEN <<>>
    ELSE LET score(i) == InnerProduct(entries[i].vector, q)
             best == CHOOSE i \in left : \A j \in left :
                         score(i) > score(j) \/ (score(i) = score(j) /\ i <= j)
         IN  <<[score |-> score(best), idx |-> best - 1]>>
             \o Ranked(entries, q, left \ {best})

IndexSearch(index, q, k) ==
    LET ranked == Ranked(index.entries, q, 1..Len(index.entries)) IN
    [i \in 1..k |-> IF i <= Len(ranked) THEN ranked[i]
                    ELSE [score |-> NoMatchScore, idx |-> -1]]

\* chunks[idx] of Python for idx >= -len(chunks): a negative idx counts from the end
PyIndex(chunks, idx) == IF idx >= 0 THEN chunks[idx + 1] ELSE chunks[Len(chunks) + idx + 1]

\* the loop of lines 96-101 over the lookup's (score, idx) pairs
RECURSIVE SearchResults(_, _)
SearchResults(chunks, found) ==
    IF found = <<>> THEN <<>>
    ELSE LET f == Head(found) IN
         IF f.idx < Len(chunks)
         THEN <<[chunk |-> PyIndex(chunks, f.idx), similarity_score |-> f.score]>>
              \o SearchResults(chunks, Tail(found))
         ELSE SearchResults(chunks, Tail(found))

SearchFaults == {"none", "encode"}

\* VectorStore.search(query, top_k): [err, results]
search(vs, query, top_k, fault) ==
    IF ~vs.index.built THEN [err |-> "RuntimeError", results |-> <<>>]
    ELSE IF fault = "encode" THEN [err |-> "EncodeError", results |-> <<>>]  \* line 87
    ELSE IF top_k <= 0 THEN [err |-> "AssertionError", results |-> <<>>]    \* line 93
    ELSE
        LET found == IndexSearch(vs.index, normalize_L2(Encode(query)), top_k)
        IN  IF vs.chunks = <<>> /\ \E i \in 1..Len(found) : found[i].idx < 0
            THEN [err |-> "IndexError", results |-> <<>>]                    \* line 99
            ELSE [err |-> "none", results |-> SearchResults(vs.chunks, found)]

-----------------------------------------------------------------------------
(* zhipu_client.py *)

\* what one requests.post can come to: no response at all, or a response with
\* a status and a body
Outcome(kind, status, body) == [kind |-> kind, status |-> status, body |-> body]

ReplyContent == <<" ", "o", "k">>      \* choices[0].message.content of a valid reply
ServiceMessage == "invalid api key"    \* error.message of an error object

Outcomes ==
    { Outcome("timeout", 0, "none"), Outcome("connection", 0, "none"),
      Outcome("response", 200, "reply"),
      Outcome("response", 200, "no_choices"),
      Outcome("response", 200, "no_message"),
      Outcome("response", 200, "error_object"),
      Outcome("response", 200, "not_json"),
      Outcome("response", 401, "error_object"),
      Outcome("response", 500, "error_object"),
      Outcome("response", 500, "not_json") }

\* the outcomes of the successive requests of one call
Scripts == [1..max_retries -> Outcomes]

GenReturn(content, requests) ==
    [err |-> "none", msg |-> "none", detail |-> "none", attempts |-> 0,
     content |-> content, requests |-> requests]
GenRaise(err, msg, detail, attempts, requests) ==
    [err |-> err, msg |-> msg, detail |-> detail, attempts |-> attempts,
     content |-> <<>>, requests |-> requests]

\* what the RequestException of a failed attempt says
RequestError(o) ==
    CASE o.kind = "timeout" -> "Timeout"
      [] o.kind = "connection" -> "ConnectionError"
      [] o.status # 200 -> IF o.status = 500 THEN "HTTPError 500" ELSE "HTTPError 401"
      [] OTHER -> "JSONDecodeError"

\* response.raise_for_status() raises for a 4xx or 5xx status
RaisesForStatus(o) == o.kind = "response" /\ o.status >= 400 /\ o.status < 600

\* the except clause of line 78 takes the attempt: requests.post raised, or
\* raise_for_status did, or response.json() raised the RequestException that
\* recent versions of requests raise for a body that is not JSON
IsRequestException(o, json_is_request_exception) ==
    \/ o.kind \in {"timeout", "connection"}
    \/ RaisesForStatus(o)
    \/ (o.body = "not_json" /\ json_is_request_exception)

\* a variant that gives up one attempt early
GivesUpEarly(attempt) == attempt >= max_retries - 2

\* "if attempt == self.max_retries - 1" of line 80
IsLastAttempt(attempt) == attempt = max_retries - 1

\* the for loop of generate_response from attempt (0-based) on
RECURSIVE Attempts(_, _, _)
Attempts(script, attempt, json_is_request_exception) ==
    IF attempt >= max_retries
    THEN GenRaise("Exception", "max retries reached", "none", 0, attempt)   \* line 90
    ELSE
        LET o == script[attempt + 1]
            requests == attempt + 1
        IN  IF IsRequestException(o, json_is_request_exception)
            THEN IF IsLastAttempt(attempt)                                   \* line 80
                 THEN GenRaise("Exception", "request failed, retried",
                               RequestError(o), max_retries, requests)
                 ELSE Attempts(script, attempt + 1, json_is_request_exception)
            ELSE IF o.body = "not_json"
            \* line 68 raised a plain ValueError; the handler of line 83 reads
            \* result, which was never assigned
            THEN GenRaise("UnboundLocalError", "none", "none", 0, requests)
            ELSE IF o.body = "reply"
            THEN GenReturn(Strip(ReplyContent), requests)                    \* line 74
            ELSE IF o.body = "error_object"                                  \* lines 85-87
            THEN GenRaise("Exception", "api returned error", ServiceMessage, 0, requests)
            ELSE GenRaise("Exception", "response parse failed", "none", 0, requests)

\* ZhipuAIClient.generate_response
generate_response(script, json_is_request_exception) ==
    Attempts(script, 0, json_is_request_exception)

-----------------------------------------------------------------------------
(* rag_system.py *)

\* the exception classes the model raises; each derives from Exception
ExceptionClasses ==
    {"RuntimeError", "FileNotFoundError", "OSError", "UnpicklingError", "ValueError",
     "IndexError", "MemoryError", "EncodeError", "AssertionError", "AttributeError",
     "UnboundLocalError", "Exception"}

\* a variant handler: "except (ValueError, RuntimeError)"
ExceptSome(err) == err \in {"ValueError", "RuntimeError"}

\* "except Exception as e" of initialize (line 61)
InitializeExcept(err) == err \in ExceptionClasses

\* a variant handler: "except RuntimeError"
ExceptRuntimeError(err) == err = "RuntimeError"

\* "except Exception as e" of ask_question (line 159)
AskExcept(err) == err \in ExceptionClasses

\* a variant that sets the flag before the index step is taken
FlagSetAtOnce(err, caught, flag) == TRUE

\* a variant that forgets line 63: a failed call leaves the flag as it was
FlagKeptOnFailure(err, caught, flag) == IF err = "none" THEN TRUE ELSE flag

\* is_initialized as initialize leaves it: set on success (line 55), cleared
\* in the handler (line 63), untouched if the exception passed the handler
FlagAfterInitialize(err, caught, flag) ==
    IF err = "none" THEN TRUE ELSE IF caught THEN FALSE ELSE flag

\* how the last initialize call before the call l ended: "never", "True", "False"
\* or "raised"
LastInitialize(l) ==
    CASE l.op = "initialize" -> l.returned
      [] l.op = "ask_question" -> l.last_initialize
      [] OTHER -> "never"

\* a variant that looks for the vector file only
IndexFileExists(d) == d.index_faiss.state # "absent"

\* RAGSystem._index_exists
_index_exists(d) == d.index_faiss.state # "absent" /\ d.chunks_pkl.state # "absent"

PickFault(fault, faults) == IF fault \in faults THEN fault ELSE "none"

\* RAGSystem._build_vector_index: [vs, disk, err]
_build_vector_index(vs, d, c, fault, faiss_available) ==
    LET documents == Corpus(c) IN
    IF documents = <<>> THEN Raise(vs, d, "ValueError")                \* line 77
    ELSE
        LET chunks == split_documents(documents, ChunkSize, ChunkOverlap)
            built == build_index(vs, d, chunks, PickFault(fault, BuildFaults),
                                 faiss_available)
        IN  IF built.err # "none" THEN built
            ELSE save_index(built.vs, d, PickFault(fault, SaveFaults))

InitFaults == {"none", "config", "model"} \cup BuildFaults \cup SaveFaults \cup LoadFaults

\* lines 35-53 done: the three components are assigned, the index step ended as r
InitializeEnd(r, path) ==
    [rag |-> [document_processor |-> TRUE, vector_store |-> r.vs, llm_client |-> TRUE],
     disk |-> r.disk, path |-> path,
     corpus_read |-> (path = "build"),                                 \* line 75
     err |-> r.err]

\* the try block of RAGSystem.initialize (lines 29-59): the fields it leaves
\* behind, the path it took and the exception that ended it, if any.
\* rag = [document_processor, vector_store, llm_client]
InitializeTry(rag, d, rebuild_index, c, fault, faiss_available) ==
    IF fault = "config"                                                \* line 32
    THEN [rag |-> rag, disk |-> d, path |-> "none", corpus_read |-> FALSE,
          err |-> "ValueError"]
    ELSE
        LET rag1 == [rag EXCEPT !.document_processor = TRUE] IN
        IF fault = "model"                                             \* line 40
        THEN [rag |-> rag1, disk |-> d, path |-> "none", corpus_read |-> FALSE,
              err |-> "OSError"]
        ELSE
            LET path == IF rebuild_index \/ ~_index_exists(d) THEN "build" ELSE "load"
                r == IF path = "build"
                     THEN _build_vector_index(NewVectorStore, d, c, fault, faiss_available)
                     ELSE load_index(NewVectorStore, d, PickFault(fault, LoadFaults),
                                     faiss_available)
            IN  InitializeEnd(r, path)

\* RAGSystem.initialize(rebuild_index)
Initialize(rebuild_index, c, fault) ==
    \E t \in { InitializeTry([document_processor |-> document_processor,
                              vector_store |-> vector_store,
                              llm_client |-> llm_client],
                             disk, rebuild_index, c, fault, FAISS_AVAILABLE) } :
    \E caught \in { t.err # "none" /\ InitializeExcept(t.err) } :
        /\ document_processor' = t.rag.document_processor
        /\ vector_store' = t.rag.vector_store
        /\ llm_client' = t.rag.llm_client
        /\ disk' = t.disk
        /\ is_initialized' = FlagAfterInitialize(t.err, caught, is_initialized)
        /\ last' = [op |-> "initialize", rebuild_index |-> rebuild_index,
                    fault |-> fault, corpus |-> c,
                    previous |-> LastInitialize(last),
                    disk_before |-> disk, path |-> t.path,
                    corpus_read |-> t.corpus_read, err |-> t.err,
                    returned |-> IF t.err = "none" THEN "True"
                                 ELSE IF caught THEN "False" ELSE "raised"]
        /\ UNCHANGED <<FAISS_AVAILABLE, json_error_is_request_exception, initializing>>

\* RAGSystem.initialize taken statement by statement, for the case that
\* ask_question is called from another thread while it runs.  The class holds
\* no lock, so a question can come between any two of the steps.  initializing
\* holds the running call's arguments and the statement it is about to execute.

\* no initialize call is in progress
Idle == [pc |-> "idle"]

Running(pc, call) == [call EXCEPT !.pc = pc]

\* the exception err ends the call in the handler of lines 61-64
InitializeFails(err) ==
    /\ is_initialized' = FlagAfterInitialize(err, InitializeExcept(err), is_initialized)
    /\ initializing' = Idle

\* the call is made and Config.validate() runs (line 32)
BeginInitialize(rebuild_index, c, fault) ==
    /\ initializing = Idle
    /\ IF fault = "config"
       THEN InitializeFails("ValueError")
       ELSE /\ initializing' = [pc |-> "components", rebuild_index |-> rebuild_index,
                                corpus |-> c, fault |-> fault]
            /\ UNCHANGED is_initialized
    /\ UNCHANGED <<FAISS_AVAILABLE, json_error_is_request_exception, document_processor,
                   vector_store, llm_client, disk, last>>

\* lines 35-45: the three components are constructed and assigned; the new
\* VectorStore has no index
StepComponents ==
    /\ initializing.pc = "components"
    /\ document_processor' = TRUE
    /\ IF initializing.fault = "model"                                     \* line 39
       THEN /\ InitializeFails("OSError")
            /\ UNCHANGED <<vector_store, llm_client>>
       ELSE /\ vector_store' = NewVectorStore
            /\ llm_client' = TRUE
            /\ initializing' = Running("index", initializing)
            /\ UNCHANGED is_initialized
    /\ UNCHANGED <<FAISS_AVAILABLE, json_error_is_request_exception, disk, last>>

\* line 48 and the first assignment of the path it takes: self.chunks = chunks
\* in build_index (vector_store.py line 65), self.index = read_index(...) in
\* load_index (line 132)
StepIndex ==
    /\ initializing.pc = "index"
    /\ IF initializing.rebuild_index \/ ~_index_exists(disk)
       THEN IF Corpus(initializing.corpus) = <<>>
            THEN InitializeFails("ValueError") /\ UNCHANGED vector_store
            ELSE IF ~FAISS_AVAILABLE
            THEN InitializeFails("RuntimeError") /\ UNCHANGED vector_store
            ELSE /\ vector_store' =
                        [vector_store EXCEPT !.chunks = CorpusChunks(initializing.corpus)]
                 /\ initializing' = Running("embed", initializing)
                 /\ UNCHANGED is_initialized
       ELSE IF ~FAISS_AVAILABLE
            THEN InitializeFails("RuntimeError") /\ UNCHANGED vector_store
            ELSE IF Missing(disk.index_faiss)
            THEN InitializeFails("FileNotFoundError") /\ UNCHANGED vector_store
            ELSE IF disk.index_faiss.state = "torn" \/ initializing.fault = "read_index"
            THEN InitializeFails("RuntimeError") /\ UNCHANGED vector_store
            ELSE /\ vector_store' =
                        [vector_store EXCEPT
                            !.index = [built |-> TRUE, entries |-> disk.index_faiss.data]]
                 /\ initializing' = Running("load_chunks", initializing)
                 /\ UNCHANGED is_initialized
    /\ UNCHANGED <<FAISS_AVAILABLE, json_error_is_request_exception, document_processor,
                   llm_client, disk, last>>

\* the rest of build_index: encode, the new index, the vectors (lines 69-77)
StepEmbed ==
    /\ initializing.pc = "embed"
    /\ \E r \in { build_index(vector_store, disk, CorpusChunks(initializing.corpus),
                               PickFault(initializing.fault, BuildFaults),
                               FAISS_AVAILABLE) } :
          /\ vector_store' = r.vs
          /\ IF r.err # "none" THEN InitializeFails(r.err)
             ELSE /\ initializing' = Running("save", initializing)
                  /\ UNCHANGED is_initialized
    /\ UNCHANGED <<FAISS_AVAILABLE, json_error_is_request_exception, document_processor,
                   llm_client, disk, last>>

\* save_index (rag_system.py line 85)
StepSave ==
    /\ initializing.pc = "save"
    /\ \E r \in { save_index(vector_store, disk,
                              PickFault(initializing.fault, SaveFaults)) } :
          /\ disk' = r.disk
          /\ IF r.err # "none" THEN InitializeFails(r.err)
             ELSE /\ initializing' = Running("flag", initializing)
                  /\ UNCHANGED is_initialized
    /\ UNCHANGED <<FAISS_AVAILABLE, json_error_is_request_exception, document_processor,
                   vector_store, llm_client, last>>

\* the rest of load_index: chunks.pkl is opened and read (lines 136-137)
StepLoadChunks ==
    /\ initializing.pc = "load_chunks"
    /\ \E r \in { load_index(vector_store, disk,
                              PickFault(initializing.fault, LoadFaults),
                              FAISS_AVAILABLE) } :
          /\ vector_store' = r.vs
          /\ IF r.err # "none" THEN InitializeFails(r.err)
             ELSE /\ initializing' = Running("flag", initializing)
                  /\ UNCHANGED is_initialized
    /\ UNCHANGED <<FAISS_AVAILABLE, json_error_is_request_exception, document_processor,
                   llm_client, disk, last>>

\* self.is_initialized = True (line 55) and the return
StepFlag ==
    /\ initializing.pc = "flag"
    /\ is_initialized' = TRUE
    /\ initializing' = Idle
    /\ UNCHANGED <<FAISS_AVAILABLE, json_error_is_request_exception, document_processor,
                   vector_store, llm_client, disk, last>>

\* the keys of the "performance" object of a response
FullPerformance == {"total_time", "retrieval_time", "generation_time", "references_count"}

\* an answer is the generated text or one of the two fixed messages
Answer(kind, text) == [kind |-> kind, text |-> text]

\* lines 103-107
NotInitializedResponse ==
    [success |-> FALSE, answer |-> Answer("system not initialized", <<>>),
     error |-> "System not initialized", references |-> <<>>, performance |-> {}]

\* lines 161-169
FailureResponse(error) ==
    [success |-> FALSE, answer |-> Answer("sorry, answering failed", <<>>),
     error |-> error, references |-> <<>>, performance |-> {"total_time"}]

\* lines 142-154
SuccessResponse(answer, references) ==
    [success |-> TRUE, answer |-> Answer("generated", answer), error |-> "none",
     references |-> references, performance |-> FullPerformance]

\* no response: the call raised
NoResponse ==
    [success |-> FALSE, answer |-> Answer("none", <<>>), error |-> "none",
     references |-> <<>>, performance |-> {}]

\* the scripts the generation service plays during ask_question
AskScripts ==
    { [i \in 1..max_retries |-> o] :
        o \in { Outcome("response", 200, "reply"), Outcome("timeout", 0, "none"),
                Outcome("response", 200, "error_object"),
                Outcome("response", 200, "not_json") } }
    \cup { [i \in 1..max_retries |->
              IF i = 1 THEN Outcome("response", 500, "error_object")
              ELSE Outcome("response", 200, "reply")] }

TopKs == {0, 1, 4}     \* 0 stands for None as well: both take the default

\* a variant that builds the context whenever search found something
ContextWheneverFound(references, include_references) == references # <<>>

\* the context is built, and rag_chat called with it (lines 121, 133)
UsesContext(references, include_references) == references # <<>> /\ include_references

\* the body of RAGSystem.ask_question once is_initialized holds (lines 109-169):
\* [searched, mode, requests, err, error (str(e)), results, answer]
AskTry(vs, client, question, top_k, include_references, search_fault, script, json_flag) ==
    LET k == IF top_k = 0 THEN MAX_RETRIEVAL_DOCS ELSE top_k               \* line 112
    IN  IF ~vs.made
        THEN [searched |-> FALSE, mode |-> "none", requests |-> 0,
              err |-> "AttributeError", error |-> "AttributeError",
              results |-> <<>>, answer |-> <<>>]
        ELSE
            LET s == search(vs, question, k, search_fault) IN
            IF s.err # "none"
            THEN [searched |-> TRUE, mode |-> "none", requests |-> 0,
                  err |-> s.err, error |-> s.err, results |-> <<>>, answer |-> <<>>]
            ELSE
                LET mode == IF UsesContext(s.results, include_references)
                            THEN "rag_chat" ELSE "chat"
                IN  IF ~client
                    THEN [searched |-> TRUE, mode |-> mode, requests |-> 0,
                          err |-> "AttributeError", error |-> "AttributeError",
                          results |-> s.results, answer |-> <<>>]
                    ELSE
                        LET g == generate_response(script, json_flag)
                        IN  [searched |-> TRUE, mode |-> mode, requests |-> g.requests,
                             err |-> g.err,
                             error |-> IF g.msg # "none" THEN g.msg ELSE g.err,
                             results |-> s.results, answer |-> g.content]

\* the question handler of the front end (app.py lines 184-208) consuming the
\* response of ask_question: the exception it ends with, "none" if it completes.
\* response["answer"] is in every response; references and performance are
\* read with .get; lines 206-208 read three timings from a performance object
\* that is there.
question_handler(response, include_refs) ==
    IF response.performance # {}                                          \* line 204
       /\ ~({"retrieval_time", "generation_time", "total_time"} \subseteq response.performance)
    THEN "KeyError"                                                       \* lines 206-208
    ELSE "none"

\* the call as the front end sees it: the response consumed by its handler
Handled(l) ==
    l @@ [front_end |-> IF l.raised THEN l.err
                        ELSE question_handler(l.response, l.include_references)]

\* RAGSystem.ask_question(question, top_k, include_references), called by the
\* question handler of the front end, which then consumes the response
AskQuestion(question, top_k, include_references, search_fault, script) ==
    \E called \in { [op |-> "ask_question", top_k |-> top_k,
                     include_references |-> include_references,
                     store |-> vector_store,
                     last_initialize |-> LastInitialize(last),
                     was_initialized |-> is_initialized] } :
        /\ \/ /\ ~is_initialized                                            \* line 102
              /\ last' = Handled(called @@
                         [searched |-> FALSE, mode |-> "none", requests |-> 0,
                          results |-> <<>>, err |-> "none", raised |-> FALSE,
                          response |-> NotInitializedResponse])
           \/ /\ is_initialized
              /\ \E t \in { AskTry(vector_store, llm_client, question, top_k,
                                   include_references, search_fault, script,
                                   json_error_is_request_exception) } :
                   last' = Handled(called @@
                       [searched |-> t.searched, mode |-> t.mode,
                        requests |-> t.requests, results |-> t.results, err |-> t.err,
                        raised |-> t.err # "none" /\ ~AskExcept(t.err),
                        response |->
                            IF t.err = "none"
                            THEN SuccessResponse(t.answer, IF include_references
                                                           THEN t.results ELSE <<>>)
                            ELSE IF AskExcept(t.err)                        \* line 159
                            THEN FailureResponse(t.error)
                            ELSE NoResponse])
        /\ UNCHANGED <<FAISS_AVAILABLE, json_error_is_request_exception, initializing,
                       document_processor, vector_store, llm_client, is_initialized, disk>>

-----------------------------------------------------------------------------
(* The operations of a VectorStore called directly *)

ChunkLists == { CorpusChunks(c) : c \in CorpusIds }

StoreCall(op, fault, r) ==
    [op |-> op, fault |-> fault, err |-> r.err,
     store_before |-> vector_store, disk_before |-> disk]

BuildIndex(chunks, fault) ==
    LET r == build_index(vector_store, disk, chunks, fault, FAISS_AVAILABLE) IN
    /\ vector_store' = r.vs
    /\ disk' = r.disk
    /\ last' = StoreCall("build_index", fault, r) @@ [chunks |-> chunks]
    /\ UNCHANGED <<FAISS_AVAILABLE, json_error_is_request_exception, initializing,
                   document_processor, llm_client, is_initialized>>

SaveIndex(fault) ==
    LET r == save_index(vector_store, disk, fault) IN
    /\ vector_store' = r.vs
    /\ disk' = r.disk
    /\ last' = StoreCall("save_index", fault, r)
    /\ UNCHANGED <<FAISS_AVAILABLE, json_error_is_request_exception, initializing,
                   document_processor, llm_client, is_initialized>>

LoadIndex(fault) ==
    LET r == load_index(vector_store, disk, fault, FAISS_AVAILABLE) IN
    /\ vector_store' = r.vs
    /\ disk' = r.disk
    /\ last' = StoreCall("load_index", fault, r)
    /\ UNCHANGED <<FAISS_AVAILABLE, json_error_is_request_exception, initializing,
                   document_processor, llm_client, is_initialized>>

\* the top_k values search is called with directly
SearchTopKs == {0, 1, 3}

Search(query, top_k, fault) ==
    \E r \in { search(vector_store, query, top_k, fault) } :
        /\ last' = [op |-> "search", fault |-> fault, err |-> r.err,
                    store_before |-> vector_store, disk_before |-> disk,
                    query |-> query, top_k |-> top_k, results |-> r.results]
        /\ UNCHANGED <<FAISS_AVAILABLE, json_error_is_request_exception, initializing,
                       document_processor, vector_store, llm_client, is_initialized, disk>>

-----------------------------------------------------------------------------
(* The chunker called directly *)

\* the characters of the texts: a letter, a sentence terminator, whitespace
Alphabet == {"a", ".", " "}

Texts == UNION { [1..n -> Alphabet] : n \in 0..MaxTextLen }

\* DocumentProcessor(chunk_size, chunk_overlap)._split_text(text).  The
\* function keeps no state, so a behaviour makes one call.
SplitText(text, chunk_size, chunk_overlap) ==
    /\ last = [op |-> "none"]
    /\ last' = [op |-> "_split_text", text |-> text, chunk_size |-> chunk_size,
                chunk_overlap |-> chunk_overlap,
                chunks |-> _split_text(text, chunk_size, chunk_overlap)]
    /\ UNCHANGED <<FAISS_AVAILABLE, json_error_is_request_exception, initializing,
                   document_processor, vector_store, llm_client, is_initialized, disk>>

-----------------------------------------------------------------------------
(* The generation client called directly *)

GenerateResponse(script) ==
    /\ last' = [op |-> "generate_response", script |-> script,
                result |-> generate_response(script, json_error_is_request_exception)]
    /\ UNCHANGED <<FAISS_AVAILABLE, json_error_is_request_exception, initializing,
                   document_processor, vector_store, llm_client, is_initialized, disk>>

-----------------------------------------------------------------------------
(* Specifications *)

NoCall == [op |-> "none"]

\* what the installation fixes: whether faiss imports, and which requests is there
Installation ==
    /\ FAISS_AVAILABLE \in BOOLEAN
    /\ json_error_is_request_exception \in BOOLEAN

\* RAGSystem.__init__ on a fresh deployment
Init ==
    /\ Installation
    /\ document_processor = FALSE
    /\ vector_store = NoVectorStore
    /\ llm_client = FALSE
    /\ is_initialized = FALSE
    /\ disk = NoArtifacts
    /\ initializing = Idle
    /\ last = NoCall

Next ==
    \/ \E rebuild_index \in BOOLEAN, c \in CorpusIds, fault \in InitFaults :
           Initialize(rebuild_index, c, fault)
    \/ \E question \in Questions, top_k \in TopKs, include_references \in BOOLEAN,
          search_fault \in SearchFaults, script \in AskScripts :
           AskQuestion(question, top_k, include_references, search_fault, script)

\* the orchestrator: initialize and ask_question in any order
Spec == Init /\ [][Next]_vars

\* a VectorStore constructed on its own
InitStore ==
    /\ Installation
    /\ document_processor = FALSE
    /\ vector_store = NewVectorStore
    /\ llm_client = FALSE
    /\ is_initialized = FALSE
    /\ disk = NoArtifacts
    /\ initializing = Idle
    /\ last = NoCall

NextStore ==
    \/ \E chunks \in ChunkLists, fault \in BuildFaults : BuildIndex(chunks, fault)
    \/ \E fault \in SaveFaults : SaveIndex(fault)
    \/ \E fault \in LoadFaults : LoadIndex(fault)
    \/ \E query \in Questions, top_k \in SearchTopKs, fault \in SearchFaults :
           Search(query, top_k, fault)

\* build_index, save_index, load_index and search in any order, each failing
\* where it can
SpecStore == InitStore /\ [][NextStore]_vars

\* a ZhipuAIClient constructed on its own
InitClient ==
    /\ Installation
    /\ document_processor = FALSE
    /\ vector_store = NoVectorStore
    /\ llm_client = TRUE
    /\ is_initialized = FALSE
    /\ disk = NoArtifacts
    /\ initializing = Idle
    /\ last = NoCall

NextClient == \E script \in Scripts : GenerateResponse(script)

\* generate_response against every script of the service
SpecClient == InitClient /\ [][NextClient]_vars

\* the generation service answering every request
ServiceUp == [i \in 1..max_retries |-> Outcome("response", 200, "reply")]

\* the steps that fail during an initialize call that runs beside questions:
\* one of each stage
RebuildFaults == {"none", "config", "model", "add", "write_index", "read_chunks"}

NextRebuild ==
    \/ \E rebuild_index \in BOOLEAN, c \in CorpusIds, fault \in RebuildFaults :
           BeginInitialize(rebuild_index, c, fault)
    \/ StepComponents
    \/ StepIndex
    \/ StepEmbed
    \/ StepSave
    \/ StepLoadChunks
    \/ StepFlag
    \/ \E question \in Questions :
           AskQuestion(question, 1, TRUE, "none", ServiceUp)

\* initialize calls, one at a time, each taken statement by statement, with
\* ask_question calls of other threads between the statements
SpecRebuild == Init /\ [][NextRebuild]_vars

\* a DocumentProcessor constructed on its own
InitSplit ==
    /\ Installation
    /\ document_processor = TRUE
    /\ vector_store = NoVectorStore
    /\ llm_client = FALSE
    /\ is_initialized = FALSE
    /\ disk = NoArtifacts
    /\ initializing = Idle
    /\ last = NoCall

NextSplit ==
    \E text \in Texts, chunk_size \in 1..MaxChunkSize :
        \E chunk_overlap \in 0..(chunk_size - 1) :
            SplitText(text, chunk_size, chunk_overlap)

\* _split_text on every text, under every configuration with
\* 0 <= chunk_overlap < chunk_size
SpecSplit == InitSplit /\ [][NextSplit]_vars

-----------------------------------------------------------------------------
(* Properties of the chunker (SpecSplit) *)

\* the sentences the loop of _split_text works on: the pieces of the text,
\* trimmed, the empty ones left out
Sentences(text) ==
    LET pieces == ReSplit(text, 1, <<>>, FALSE) IN
    { Strip(pieces[i]) : i \in 1..Len(pieces) } \ {<<>>}

IsPrefix(p, s) == Len(p) <= Len(s) /\ SubSeq(s, 1, Len(p)) = p

\* C18: every chunk _split_text produces is at most chunk_size long, unless it
\* is a single sentence that is itself longer than chunk_size.
C18_ChunkWithinSize ==
    last.op = "_split_text" =>
        \A i \in 1..Len(last.chunks) :
            \/ Len(last.chunks[i]) <= last.chunk_size
            \/ /\ last.chunks[i] \in Sentences(last.text)
               /\ Len(last.chunks[i]) > last.chunk_size

\* C19: a text that is not blank and no longer than chunk_size yields exactly
\* one chunk, the trimmed text.
C19_ShortTextOneChunk ==
    ( /\ last.op = "_split_text"
      /\ Strip(last.text) # <<>>
      /\ Len(last.text) <= last.chunk_size ) =>
        last.chunks = <<Strip(last.text)>>

\* C20: with chunk_overlap > 0, every chunk after the first starts with the
\* last chunk_overlap characters of the chunk emitted before it (all of it if
\* it is shorter), leading whitespace trimmed, then a space, then a sentence of
\* the text.
C20_OverlapSeedsNextChunk ==
    (last.op = "_split_text" /\ last.chunk_overlap > 0) =>
        \A i \in 1..(Len(last.chunks) - 1) :
            LET chunk == last.chunks[i]
                tail == SubSeq(chunk, Max(0, Len(chunk) - last.chunk_overlap) + 1,
                               Len(chunk))
            IN  \E sentence \in Sentences(last.text) :
                    IsPrefix(LStrip(tail) \o Space \o sentence, last.chunks[i + 1])

\* a chunk longer than chunk_overlap was emitted, its tail was cut inside it
\* and opens the next chunk
C20_Witness ==
    /\ last.op = "_split_text"
    /\ last.chunk_overlap > 0
    /\ Len(last.chunks) >= 2
    /\ Len(last.chunks[1]) > last.chunk_overlap
    /\ \E sentence \in Sentences(last.text) :
           IsPrefix(SubSeq(last.chunks[1], Len(last.chunks[1]) - last.chunk_overlap + 1,
                           Len(last.chunks[1])) \o Space \o sentence,
                    last.chunks[2])

\* the pieces trimmed, the empty ones left out, in the order of the text
RECURSIVE NonEmptyTrimmed(_)
NonEmptyTrimmed(pieces) ==
    IF pieces = <<>> THEN <<>>
    ELSE (IF Strip(Head(pieces)) = <<>> THEN <<>> ELSE <<Strip(Head(pieces))>>)
         \o NonEmptyTrimmed(Tail(pieces))

\* the document's sequence of non-empty trimmed sentences
SentenceSeq(text) == NonEmptyTrimmed(ReSplit(text, 1, <<>>, FALSE))

\* sentences written one after the other, a space between two
RECURSIVE Join(_)
Join(ss) ==
    IF ss = <<>> THEN <<>>
    ELSE IF Len(ss) = 1 THEN ss[1]
    ELSE ss[1] \o Space \o Join(Tail(ss))

\* what chunk i starts with before its own sentences: nothing for the first
\* chunk or without overlap, else the tail of the chunk before it and a space
SeedBefore(chunks, i, chunk_overlap) ==
    IF i = 1 \/ chunk_overlap = 0 THEN <<>>
    ELSE LStrip(SubSeq(chunks[i - 1],
                       Max(0, Len(chunks[i - 1]) - chunk_overlap) + 1,
                       Len(chunks[i - 1]))) \o Space

\* the chunks from the i-th on hold, their seeds left out, exactly the given
\* sentences: each chunk one or more of them, whole, in order
RECURSIVE Covers(_, _, _, _)
Covers(chunks, i, sentences, chunk_overlap) ==
    IF i > Len(chunks) THEN sentences = <<>>
    ELSE \E k \in 1..Len(sentences) :
            /\ chunks[i] = SeedBefore(chunks, i, chunk_overlap)
                               \o Join(SubSeq(sentences, 1, k))
            /\ Covers(chunks, i + 1, SubSeq(sentences, k + 1, Len(sentences)),
                      chunk_overlap)

\* C25: the sentences _split_text puts into its chunks, the overlap seeds
\* left out, are the text's non-empty trimmed sentences, in order, each whole
\* and each in exactly one chunk, a sentence longer than chunk_size included;
\* a blank text yields no chunk.
C25_NoSentenceLost ==
    last.op = "_split_text" =>
        /\ Covers(last.chunks, 1, SentenceSeq(last.text), last.chunk_overlap)
        /\ Strip(last.text) = <<>> => last.chunks = <<>>

\* a text of several sentences, one of them longer than chunk_size, split into
\* several chunks
C25_Witness ==
    /\ last.op = "_split_text"
    /\ Len(SentenceSeq(last.text)) >= 2
    /\ Len(last.chunks) >= 2
    /\ \E i \in 1..Len(SentenceSeq(last.text)) :
           /\ Len(SentenceSeq(last.text)[i]) > last.chunk_size
           /\ \E j \in 1..Len(last.chunks) :
                  last.chunks[j] = SeedBefore(last.chunks, j, last.chunk_overlap)
                                      \o SentenceSeq(last.text)[i]
    /\ Covers(last.chunks, 1, SentenceSeq(last.text), last.chunk_overlap)

-----------------------------------------------------------------------------
(* Properties of the embedding index (SpecStore) *)

\* vector i of the index was embedded from the chunk stored at position i
Coupled(entries, chunks) ==
    /\ Len(entries) = Len(chunks)
    /\ \A i \in 1..Len(entries) : entries[i].of = chunks[i]

\* C1: in every state reachable by build_index, save_index and load_index
\* calls, failed ones included, a present in-memory index has as many vectors
\* as there are stored chunks, and vector i was embedded from chunk i.
C1_IndexCoupled ==
    vector_store.index.built => Coupled(vector_store.index.entries, vector_store.chunks)

\* both artifacts are whole and were written from one build
SameBuild(d) ==
    /\ d.index_faiss.state = "ok"
    /\ d.chunks_pkl.state = "ok"
    /\ Coupled(d.index_faiss.data, d.chunks_pkl.data)

\* C9: save_index is atomic: once it returned, the two artifacts reflect the
\* same build; if it failed, at whatever step, the artifacts are what they were
\* before the call.
C9_SaveAtomic ==
    last.op = "save_index" =>
        /\ last.err = "none" => SameBuild(disk)
        /\ last.err # "none" => disk = last.disk_before

\* C10: load_index never returns normally when the stored chunk artifact
\* holds another number of chunks than the stored vector artifact holds vectors.
C10_LoadRejectsMismatch ==
    (last.op = "load_index" /\ last.err = "none") =>
        Len(last.disk_before.chunks_pkl.data) = Len(last.disk_before.index_faiss.data)

C12_FailedCallKeepsState ==
    (last.op \in {"build_index", "load_index"} /\ last.err # "none") =>
        /\ vector_store.index = last.store_before.index
        /\ vector_store.chunks = last.store_before.chunks

\* C16: build_index called with an empty chunk sequence raises, and the store
\* it leaves does not hold an index beside zero chunks.
C16_EmptyCorpusRejected ==
    (last.op = "build_index" /\ FAISS_AVAILABLE /\ last.chunks = <<>>) =>
        /\ last.err # "none"
        /\ ~(vector_store.index.built /\ vector_store.chunks = <<>>)

\* the store holds an index built from its chunks, one vector per chunk
ProperlyBuilt(vs) ==
    vs.index.built /\ vs.chunks # <<>> /\ Coupled(vs.index.entries, vs.chunks)

Min(a, b) == IF a <= b THEN a ELSE b

\* the positions the lookup matched: those it did not report as -1
RECURSIVE Matched(_)
Matched(found) ==
    IF found = <<>> THEN <<>>
    ELSE IF Head(found).idx >= 0 THEN <<Head(found)>> \o Matched(Tail(found))
    ELSE Matched(Tail(found))

\* the lookup search made for the last call
LastFound ==
    IndexSearch(last.store_before.index, normalize_L2(Encode(last.query)), last.top_k)

\* C14: over a properly built index, a search that returned gives at most
\* min(top_k, index size) results, and its results are, in order, the chunks at
\* the positions the lookup matched, each within the stored chunk range.
C14_SearchWithinIndex ==
    ( /\ last.op = "search"
      /\ last.err = "none"
      /\ ProperlyBuilt(last.store_before) ) =>
        LET matched == Matched(LastFound)
            chunks == last.store_before.chunks
        IN  /\ Len(last.results) <= Min(last.top_k, Len(last.store_before.index.entries))
            /\ Len(last.results) = Len(matched)
            /\ \A i \in 1..Len(matched) :
                   /\ matched[i].idx < Len(chunks)
                   /\ last.results[i].chunk = chunks[matched[i].idx + 1]

\* C15: over a properly built index and with the query embedded, search with
\* top_k <= 0 returns what search with top_k = 1 returns, and search with top_k
\* above the number of vectors returns one result per vector.
C15_TopKClamped ==
    ( /\ last.op = "search"
      /\ last.fault = "none"
      /\ ProperlyBuilt(last.store_before) ) =>
        /\ last.top_k <= 0 =>
               /\ last.err = "none"
               /\ last.results = search(last.store_before, last.query, 1, "none").results
        /\ last.top_k > Len(last.store_before.index.entries) =>
               /\ last.err = "none"
               /\ Len(last.results) = Len(last.store_before.index.entries)

\* the two artifacts are what save_index writes for the store vs
SavedFrom(vs, d) ==
    d.index_faiss = File(vs.index.entries) /\ d.chunks_pkl = File(vs.chunks)

-----------------------------------------------------------------------------
(* Properties of the generation client (SpecClient) *)

\* the failures the retry policy calls transient: a timeout, a connection
\* error, an HTTP 500
TransientFailure(o) ==
    o.kind \in {"timeout", "connection"} \/ (o.kind = "response" /\ o.status = 500)

ValidReply(o) == o.kind = "response" /\ o.status = 200 /\ o.body = "reply"

\* C4: with max_retries = 3, k transient failures (0 <= k < 3) followed by a
\* valid 200 reply make the call return that reply after exactly k+1 requests;
\* three transient failures make it raise the generation error that reports 3
\* attempts and the last error, after exactly 3 requests; no call issues more
\* than 3 requests.
C4_RetryUntilReply ==
    last.op = "generate_response" =>
        LET s == last.script
            r == last.result
        IN  /\ \A k \in 0..(max_retries - 1) :
                   ((\A j \in 1..k : TransientFailure(s[j])) /\ ValidReply(s[k + 1]))
                   => (r.err = "none" /\ r.content = <<"o", "k">> /\ r.requests = k + 1)
            /\ (\A j \in 1..max_retries : TransientFailure(s[j]))
                   => /\ r.err = "Exception"
                      /\ r.msg = "request failed, retried"
                      /\ r.attempts = 3
                      /\ r.detail = RequestError(s[max_retries])
                      /\ r.requests = 3
            /\ r.requests <= 3

\* C4, its case: two HTTP 500 and then a valid reply, answered by the third request
C4_Witness ==
    /\ last.op = "generate_response"
    /\ last.script[1].status = 500
    /\ last.script[2].status = 500
    /\ ValidReply(last.script[3])
    /\ last.result.err = "none"
    /\ last.result.requests = 3

MalformedBody(o) ==
    o.kind = "response" /\ o.body \in {"not_json", "no_choices", "no_message"}

HasErrorObject(o) == o.kind = "response" /\ o.body = "error_object"

\* C5: an attempt that receives a response with a malformed body or with an
\* error object ends the call with an error on that attempt, with no further
\* request; with an error object the error carries the service's message.
C5_NoRetryOnBadResponse ==
    last.op = "generate_response" =>
        \A k \in 1..last.result.requests :
            (MalformedBody(last.script[k]) \/ HasErrorObject(last.script[k]))
            => /\ last.result.err # "none"
               /\ last.result.requests = k
               /\ HasErrorObject(last.script[k]) => last.result.detail = ServiceMessage

\* C6: only transient failures are retried: an attempt that fails in any other
\* way, a 401 included, is the last request of the call.
C6_RetryOnlyTransient ==
    last.op = "generate_response" =>
        \A k \in 1..last.result.requests :
            (~ValidReply(last.script[k]) /\ ~TransientFailure(last.script[k]))
            => (last.result.err # "none" /\ last.result.requests = k)

-----------------------------------------------------------------------------
(* Properties of the orchestrator (Spec) *)

\* C2: an ask_question call in Ready whose search or generation raised
\* returns, and what it returns says success = false, carries the failure
\* answer and the error detail.
C2_AskCatchesErrors ==
    (last.op = "ask_question" /\ last.was_initialized /\ last.err # "none") =>
        /\ ~last.raised
        /\ last.response.success = FALSE
        /\ last.response.answer.kind = "sorry, answering failed"
        /\ last.response.error # "none"

\* C2, its case: the generation failed after three requests and the call returned
C2_Witness ==
    /\ last.op = "ask_question"
    /\ last.was_initialized
    /\ last.searched
    /\ last.requests = 3
    /\ last.err = "Exception"
    /\ last.response.error = "request failed, retried"

\* C3: when initialize was never called or the last initialize call failed,
\* ask_question returns the "not initialized" response with success = false,
\* does not raise, and calls neither search nor the generation client.
C3_AskBeforeReady ==
    (last.op = "ask_question" /\ last.last_initialize \in {"never", "False"}) =>
        /\ ~last.raised
        /\ last.response.success = FALSE
        /\ last.response.error = "System not initialized"
        /\ last.response.answer.kind = "system not initialized"
        /\ ~last.searched
        /\ last.requests = 0

\* C3, its case: initialize failed after the index was built (the save failed),
\* and the question that follows is refused although an index is there
C3_Witness ==
    /\ last.op = "ask_question"
    /\ last.last_initialize = "False"
    /\ vector_store.index.built
    /\ llm_client
    /\ ~last.searched
    /\ last.response.error = "System not initialized"

\* nothing fails during the initialize call l: faiss is there, no step is made
\* to fail, the corpus holds a document if the corpus is read, and the
\* artifacts are whole if they are loaded
NothingFails(l) ==
    /\ FAISS_AVAILABLE
    /\ l.fault = "none"
    /\ IF \/ l.rebuild_index
          \/ l.disk_before.index_faiss.state = "absent"
          \/ l.disk_before.chunks_pkl.state = "absent"
       THEN Corpus(l.corpus) # <<>>
       ELSE /\ l.disk_before.index_faiss.state = "ok"
            /\ l.disk_before.chunks_pkl.state = "ok"

\* C7: initialize never raises; it returns True with is_initialized set, or,
\* when any step failed, False with is_initialized cleared; and a call made
\* after a failed one returns True when nothing fails during it.
C7_InitializeReportsFailure ==
    last.op = "initialize" =>
        /\ last.returned \in {"True", "False"}
        /\ is_initialized = (last.returned = "True")
        /\ last.err # "none" => last.returned = "False"
        /\ (last.previous = "False" /\ NothingFails(last)) => last.returned = "True"

\* C7, its case: a call that returns True right after a failed call
C7_Witness ==
    /\ last.op = "initialize"
    /\ last.previous = "False"
    /\ last.returned = "True"
    /\ is_initialized

\* C8: initialize takes the build path exactly when rebuild_index is set or
\* one of the two artifacts is missing; the build path reads the corpus and,
\* when it succeeds, leaves the corpus' chunks in memory and on disk; the load
\* path reads no corpus, leaves both artifacts as they were and, when it
\* succeeds, holds what they store.
C8_BuildOrLoadPath ==
    (last.op = "initialize" /\ last.path # "none") =>
        LET missing == \/ last.disk_before.index_faiss.state = "absent"
                       \/ last.disk_before.chunks_pkl.state = "absent"
        IN  /\ (last.path = "build") = (last.rebuild_index \/ missing)
            /\ (last.path = "load") = ~(last.rebuild_index \/ missing)
            /\ last.corpus_read = (last.path = "build")
            /\ (last.path = "build" /\ last.err = "none") =>
                   /\ vector_store.chunks = CorpusChunks(last.corpus)
                   /\ disk.index_faiss = File(vector_store.index.entries)
                   /\ disk.chunks_pkl = File(vector_store.chunks)
            /\ last.path = "load" =>
                   /\ disk = last.disk_before
                   /\ last.err = "none" =>
                          /\ vector_store.index.entries = disk.index_faiss.data
                          /\ vector_store.chunks = disk.chunks_pkl.data

\* C8, its case: the vector file is there, the chunk file is missing, no
\* rebuild was asked for, and the index is built again
C8_Witness ==
    /\ last.op = "initialize"
    /\ ~last.rebuild_index
    /\ last.disk_before.index_faiss.state = "ok"
    /\ last.disk_before.chunks_pkl.state = "absent"
    /\ last.path = "build"
    /\ last.returned = "True"

\* the last call was an initialize whose build_index returned and whose
\* save_index then raised
SaveFailedAfterBuild ==
    /\ last.op = "initialize"
    /\ last.path = "build"
    /\ FAISS_AVAILABLE
    /\ Corpus(last.corpus) # <<>>
    /\ last.fault \in SaveFaults \ {"none"}
    /\ last.err # "none"

\* C13: when save_index fails after build_index built the index in memory, the
\* store holds that index and its chunks unchanged, and the system answers
\* questions from it: is_initialized holds, so ask_question goes on to search.
C13_IndexUsableAfterFailedSave ==
    SaveFailedAfterBuild =>
        /\ vector_store.chunks = CorpusChunks(last.corpus)
        /\ vector_store.index = [built |-> TRUE,
                                 entries |-> Embeddings(CorpusChunks(last.corpus))]
        /\ is_initialized

C23_FrontEndConsumesResponse ==
    last.op = "ask_question" => last.front_end = "none"

\* C24: whenever no initialize call is in progress and is_initialized holds,
\* the vector store holds an index and the chunker and the generation client
\* are constructed.
C24_ReadyHasComponents ==
    (initializing = Idle /\ is_initialized) =>
        /\ vector_store.made
        /\ vector_store.index.built
        /\ document_processor
        /\ llm_client

\* an initialize call failed, the next one succeeded: the system is ready again
C24_Witness ==
    /\ initializing = Idle
    /\ is_initialized
    /\ last.op = "initialize"
    /\ last.previous = "False"
    /\ last.path = "load"
    /\ vector_store.index.built

\* C22: every ask_question that goes on to search, an initialize call running
\* beside it or not, searches a store that holds an index, whose vectors were
\* embedded from the chunks stored beside them: the whole index of one build.
C22_AskSeesWholeIndex ==
    (last.op = "ask_question" /\ last.searched) =>
        /\ last.store.index.built
        /\ Coupled(last.store.index.entries, last.store.chunks)

====
